---- MODULE Spec2Model ----
(***************************************************************************)
(* Book-Creator: the two desktop variants (book_creation_og.py, OpenAI;    *)
(* book_gen_anth.py, Anthropic) as one state machine.  The variable       *)
(* variant selects which file's code runs; it is fixed by Init.            *)
(*                                                                         *)
(* Text is modelled as sequences of tokens.  An outline response is a      *)
(* sequence over                                                           *)
(*   "FENCE" a code fence (three backticks)   "json" the word json         *)
(*   "txt"  conversational text   "nl"   whitespace / newline              *)
(*   "[" "]" array brackets       "{}"   a JSON object                     *)
(*   "A" "B" "C" "D" ...          a JSON string literal (commas elided)    *)
(*   "QX" "FENCE" "YQ"            the JSON string literal x-FENCE-y, whose *)
(*                                text contains a code fence               *)
(* A chapter text is a sequence over "x", "y" (prose) and "\n".            *)
(* A Python string built by an f-string is a record of its parts.          *)
(***************************************************************************)
EXTENDS Integers, Sequences, FiniteSets, TLC

\* ------------------------------------------------------------------ bounds
MaxChapters == 2

\* -------------------------------------------------------- strings (titles)
\* a plain string
Str(t) == [text |-> t, num |-> 0, part |-> ""]

\* f"Chapter {len(chapters)+1}"
ChapterTitle(k) == [text |-> "Chapter", num |-> k, part |-> ""]

\* f"Chapter {i+1}: {topic} - Part {i+1}"
FallbackTitle(k, topic) == [text |-> "Chapter", num |-> k, part |-> topic]

NoTitle == Str("")

Min(a, b) == IF a < b THEN a ELSE b

Max(a, b) == IF a > b THEN a ELSE b

\* ------------------------------------------------------- str.split, in
MatchAt(s, sep, i) ==
    /\ i + Len(sep) - 1 <= Len(s)
    /\ SubSeq(s, i, i + Len(sep) - 1) = sep

RECURSIVE FindFrom(_, _, _)
\* str.find: the first index >= i at which sep occurs in s, 0 if none
FindFrom(s, sep, i) ==
    IF i + Len(sep) - 1 > Len(s) THEN 0
    ELSE IF MatchAt(s, sep, i) THEN i
    ELSE FindFrom(s, sep, i + 1)

\* sep in s
Contains(s, sep) == FindFrom(s, sep, 1) # 0

RECURSIVE Split(_, _)
\* s.split(sep): the pieces between the non-overlapping occurrences of sep
Split(s, sep) ==
    LET i == FindFrom(s, sep, 1)
    IN  IF i = 0 THEN <<s>>
        ELSE <<SubSeq(s, 1, i - 1)>> \o Split(SubSeq(s, i + Len(sep), Len(s)), sep)

IsSpace(c) == c \in {"nl", "\n"}

RECURSIVE Strip(_)
\* s.strip(): leading and trailing whitespace removed
Strip(s) ==
    IF s = <<>> THEN s
    ELSE IF IsSpace(Head(s)) THEN Strip(Tail(s))
    ELSE IF IsSpace(s[Len(s)]) THEN Strip(SubSeq(s, 1, Len(s) - 1))
    ELSE s

\* ---------------------------------------------------------------- json.loads
PlainTitles == {"A", "B", "C", "D", "E"}

FenceTok == "FENCE"

JsonErr == [kind |-> "error", val |-> <<>>]

RECURSIVE ParseElems(_)
\* the string literals of an array body; "error" when a token is no literal
ParseElems(t) ==
    IF t = <<>> THEN [kind |-> "list", val |-> <<>>]
    ELSE IF Head(t) \in PlainTitles THEN
        LET r == ParseElems(Tail(t))
        IN  IF r.kind = "list"
            THEN [kind |-> "list", val |-> <<Str(Head(t))>> \o r.val]
            ELSE JsonErr
    ELSE IF Len(t) >= 3 /\ t[1] = "QX" /\ t[2] = FenceTok /\ t[3] = "YQ" THEN
        LET r == ParseElems(SubSeq(t, 4, Len(t)))
        IN  IF r.kind = "list"
            THEN [kind |-> "list", val |-> <<Str("xFENCEy")>> \o r.val]
            ELSE JsonErr
    ELSE JsonErr

\* json.loads(s): a list of strings, another JSON value, or JSONDecodeError.
\* Whitespace between JSON tokens is insignificant.
JsonLoads(s) ==
    LET t == SelectSeq(s, LAMBDA c : ~IsSpace(c))
    IN  IF t = <<"{}">> THEN [kind |-> "value", val |-> <<>>]
        ELSE IF Len(t) = 1 /\ t[1] \in PlainTitles
            THEN [kind |-> "value", val |-> <<>>]
        ELSE IF Len(t) >= 2 /\ t[1] = "[" /\ t[Len(t)] = "]"
            THEN ParseElems(SubSeq(t, 2, Len(t) - 1))
        ELSE JsonErr

\* ------------------------------------------------------- outline extraction
\* book_creation_og.py: chapters = json.loads(outline_response)
ExtractOpenAI(resp) == JsonLoads(resp)

\* book_gen_anth.py: the content of the first fenced block, if there is a fence
ExtractAnthropic(resp) ==
    IF Contains(resp, <<FenceTok, "json">>)
    THEN JsonLoads(Strip(Split(Split(resp, <<FenceTok, "json">>)[2], <<FenceTok>>)[1]))
    ELSE IF Contains(resp, <<FenceTok>>)
    THEN JsonLoads(Strip(Split(Split(resp, <<FenceTok>>)[2], <<FenceTok>>)[1]))
    ELSE JsonLoads(resp)

Extract(v, resp) ==
    IF v = "openai" THEN ExtractOpenAI(resp) ELSE ExtractAnthropic(resp)

\* chapters[:n]
PySlice(s, n) ==
    IF n >= 0 THEN SubSeq(s, 1, Min(n, Len(s)))
    ELSE SubSeq(s, 1, Max(Len(s) + n, 0))

RECURSIVE PadChapters(_, _)
\* while len(chapters) < num_chapters: chapters.append(f"Chapter {len(chapters)+1}")
PadChapters(chapters, n) ==
    IF Len(chapters) < n
    THEN PadChapters(Append(chapters, ChapterTitle(Len(chapters) + 1)), n)
    ELSE chapters

\* mutant: the surplus titles are kept
RepairOutline_NoTruncate(chapters, n) ==
    IF Len(chapters) < n THEN PadChapters(chapters, n) ELSE chapters

\* the length adjustment of a parsed list
RepairOutline(chapters, n) ==
    IF Len(chapters) # n
    THEN IF Len(chapters) > n THEN PySlice(chapters, n) ELSE PadChapters(chapters, n)
    ELSE chapters

\* mutant: the fallback titles are numbered from 0
FallbackTitles_FromZero(topic, n) ==
    [i \in 1..Max(n, 0) |-> FallbackTitle(i - 1, topic)]

\* [f"Chapter {i+1}: {topic} - Part {i+1}" for i in range(num_chapters)]
FallbackTitles(topic, n) ==
    [i \in 1..Max(n, 0) |-> FallbackTitle(i, topic)]

\* ------------------------------------------------------------ chapter markup
Tok(tag, i, title, text) == [tag |-> tag, idx |-> i, title |-> title, text |-> text]

\* <h2>Chapter {idx}: {chapter_title}</h2>
H2(i, title) == Tok("h2", i, title, "")

POpen == Tok("<p>", 0, NoTitle, "")

PClose == Tok("</p>", 0, NoTitle, "")

NL == Tok("nl", 0, NoTitle, "")

RECURSIVE ReplaceNewlines_Joined(_)
\* mutant: a newline becomes a space inside one paragraph
ReplaceNewlines_Joined(text) ==
    IF text = <<>> THEN <<>>
    ELSE <<Tok("text", 0, NoTitle, IF Head(text) = "\n" THEN " " ELSE Head(text))>>
             \o ReplaceNewlines_Joined(Tail(text))

RECURSIVE ReplaceNewlines(_)
\* chapter_text.replace(chr(10), '</p>\n<p>')
ReplaceNewlines(text) ==
    IF text = <<>> THEN <<>>
    ELSE IF Head(text) = "\n" THEN <<PClose, NL, POpen>> \o ReplaceNewlines(Tail(text))
    ELSE <<Tok("text", 0, NoTitle, Head(text))>> \o ReplaceNewlines(Tail(text))

\* mutant: enumerate without start=1
ChapterHtml_FromZero(i, title, text) ==
    <<H2(i - 1, title), NL, POpen>> \o ReplaceNewlines(text) \o <<PClose>>

\* f"<h2>Chapter {idx}: {chapter_title}</h2>\n<p>{...}</p>"
ChapterHtml(i, title, text) ==
    <<H2(i, title), NL, POpen>> \o ReplaceNewlines(text) \o <<PClose>>

\* ------------------------------------------------------- language-model call
\* the outcomes of the successive client.messages.create requests of one call:
\* "ok", an error whose text contains "404", or another error
CallOutcomes ==
    { <<"ok">>, <<"e500">>, <<"e404", "ok">>, <<"e404", "e500", "ok">>,
      <<"e404", "e404", "e500", "ok">>, <<"e404", "e500", "e404", "e500">> }

OpusModel == "claude-3-opus-20240229"

HaikuModel == "claude-3-haiku-20240307"

InstantModel == "claude-instant-1.2"

SonnetModel == "claude-3-sonnet-20240229"

\* mutant: a failed request is sent a second time
OriginalCall_Retry(model, o) ==
    IF o[1] = "ok" THEN [attempts |-> <<model>>, ok |-> TRUE, raised |-> 0]
    ELSE [attempts |-> <<model, model>>, ok |-> FALSE, raised |-> 2]

\* call_openai_api / the module-level call_anthropic_api: one request
OriginalCall(model, o) ==
    [attempts |-> <<model>>, ok |-> (o[1] = "ok"),
     raised |-> IF o[1] = "ok" THEN 0 ELSE 1]

\* mutant: haiku is tried before opus
ModelSpecificCall_HaikuFirst(model, o) ==
    IF o[1] = "ok" THEN [attempts |-> <<model>>, ok |-> TRUE, raised |-> 0]
    ELSE IF o[1] # "e404" THEN [attempts |-> <<model>>, ok |-> FALSE, raised |-> 1]
    ELSE IF o[2] = "ok" THEN [attempts |-> <<model, HaikuModel>>, ok |-> TRUE,
          raised |-> 0]
    ELSE IF o[3] = "ok"
        THEN [attempts |-> <<model, HaikuModel, OpusModel>>, ok |-> TRUE,
              raised |-> 0]
    ELSE [attempts |-> <<model, HaikuModel, OpusModel, InstantModel>>,
          ok |-> (o[4] = "ok"),
          raised |-> IF o[4] = "ok" THEN 0 ELSE 4]

\* threaded_create_book.model_specific_call: the selected model, then on an
\* error whose text contains "404" opus, haiku and instant in turn
ModelSpecificCall(model, o) ==
    IF o[1] = "ok" THEN [attempts |-> <<model>>, ok |-> TRUE, raised |-> 0]
    ELSE IF o[1] # "e404" THEN [attempts |-> <<model>>, ok |-> FALSE, raised |-> 1]
    ELSE IF o[2] = "ok" THEN [attempts |-> <<model, OpusModel>>, ok |-> TRUE,
          raised |-> 0]
    ELSE IF o[3] = "ok"
        THEN [attempts |-> <<model, OpusModel, HaikuModel>>, ok |-> TRUE,
              raised |-> 0]
    ELSE [attempts |-> <<model, OpusModel, HaikuModel, InstantModel>>,
          ok |-> (o[4] = "ok"),
          raised |-> IF o[4] = "ok" THEN 0 ELSE 4]

\* the function the global name is bound to when generate_book_content calls it
ApiCall(binding, v, model, o) ==
    IF binding = "model_specific" THEN ModelSpecificCall(model, o)
    ELSE OriginalCall(IF v = "openai" THEN "gpt-4" ELSE SonnetModel, o)

\* call_openai_api strips the text it returns; the Anthropic calls do not
ReturnedText(v, raw) == IF v = "openai" THEN Strip(raw) ELSE raw

\* ---------------------------------------------------- generate_book_content
\* the try/except around the outline parse: the titles, or the error re-raised
ParseOutline(v, resp, topic, n) ==
    LET p == Extract(v, resp)
    IN  IF p.kind = "list"
        THEN [raised |-> FALSE, parsed |-> p, chapters |-> RepairOutline(p.val, n),
              logs |-> IF Len(p.val) # n THEN <<"Expected chapters, adjusting">> ELSE <<>>]
        ELSE IF v = "openai"
        THEN [raised |-> TRUE, parsed |-> p, chapters |-> <<>>,
              logs |-> <<"Error parsing JSON outline">>]
        ELSE [raised |-> FALSE, parsed |-> p, chapters |-> FallbackTitles(topic, n),
              logs |-> <<"Error parsing JSON outline", "Created fallback chapter titles">>]

\* ------------------------------------------------------------------- state
VARIABLES
    variant,            \* "openai" (book_creation_og.py) or "anthropic" (book_gen_anth.py)
    button,             \* create_button state: "normal" or "disabled"
    afterQueue,         \* master.after(0, ...) re-enable callbacks not yet run
    dialog,             \* the last messagebox.showerror text, "none" after a start
    alive,              \* the worker thread is running threaded_create_book
    pc,                 \* the worker's position
    req,                \* the arguments the worker was started with
    call_api,           \* what the global call_anthropic_api is bound to
    outline_response,   \* generate_book_content: outline_response
    parsed,             \* the result of the outline extraction
    chapters,           \* generate_book_content: chapters
    idx,                \* generate_book_content: idx of the chapter loop
    full_content,       \* generate_book_content: full_content
    attempts,           \* models requested, in order, by the API call of this step
    apiCalls,           \* calls of the API function made by generate_book_content
    primaryCalls,       \* GETs of the primary cover endpoint by this worker
    secondaryCalls,     \* GETs of the fallback cover endpoint by this worker
    response,           \* generate_book_cover: response
    coverFile,          \* bytes of the cover file on disk, "absent" if none
    coverWrites,        \* completed writes of the cover file by this worker
    cover_image_path,   \* create_book_process: cover_image_path, "" until returned
    compiled,           \* what compile_book_to_epub was called with
    epubFile,           \* "absent" or "written"
    epubWrites,         \* EPUB files written by this worker
    log,                \* the records this worker logged
    inFlight,           \* language-model calls issued and not yet returned
    pauses,             \* time.sleep(1) pauses this worker has completed
    workers,            \* threads running threaded_create_book
    chapter_text,       \* generate_book_content: chapter_text of the last chapter
    outcomes,           \* what each request of the API call of this step returned
    raisedAt,           \* the request whose error the call raised, 0 if it returned
    original_call       \* threaded_create_book: original_call

vars == <<variant, button, afterQueue, dialog, alive, pc, req, call_api,
          outline_response, parsed, chapters, idx, full_content, attempts, apiCalls,
          primaryCalls, secondaryCalls, response, coverFile, coverWrites,
          cover_image_path, compiled, epubFile, epubWrites, log, inFlight, pauses,
          workers, chapter_text, outcomes, raisedAt, original_call>>

\* the state added for the calls in flight, the pauses and the thread count
extra == <<inFlight, pauses, workers, chapter_text, outcomes, raisedAt, original_call>>

ui == <<button, afterQueue, dialog>>

disk == <<coverFile, epubFile>>

\* ------------------------------------------------------------ the environment
Topics == {"", "Rome"}

CoverEntries == {"", "cover.png"}

ModelChoices == {SonnetModel, OpusModel}

TitleAlphabet == <<"A", "B", "C", "D", "E">>

\* array bodies the model returns: in-order lists of 0..MaxChapters+1 titles,
\* a reordered one, and one whose title contains a code fence
OutlineBodies ==
    {SubSeq(TitleAlphabet, 1, m) : m \in 0..Min(MaxChapters + 1, 5)}
        \cup {<<"B", "A">>, <<"QX", FenceTok, "YQ">>}

Bare(b) == <<"[">> \o b \o <<"]">>

FencedJson(b) ==
    <<"txt", "nl", FenceTok, "json", "nl">> \o Bare(b) \o <<"nl", FenceTok, "nl", "txt">>

FencedPlain(b) == <<FenceTok, "nl">> \o Bare(b) \o <<"nl", FenceTok>>

MalformedResponses ==
    { <<"txt">>, <<"{}">>, <<"[", "A">>,
      <<FenceTok, "json", "nl", "{}", "nl", FenceTok>> }

\* the bodies that are also returned inside a fenced block
FencedBodies == {SubSeq(TitleAlphabet, 1, Min(MaxChapters, 5)), <<"B", "A">>}

OutlineResponses ==
    {Bare(b) : b \in OutlineBodies} \cup {FencedJson(b) : b \in FencedBodies}
        \cup {FencedPlain(b) : b \in FencedBodies} \cup MalformedResponses

ChapterTexts == { <<"x">>, <<"x", "\n", "\n", "y", "\n">> }

NoResponse == [status |-> 0, content |-> ""]

NoCompiled == [content |-> <<>>, cover |-> "", called |-> FALSE]

NoReq == [topic |-> "", num_chapters |-> 0, cover |-> "", model |-> ""]

NoParsed == [kind |-> "none", val |-> <<>>]

\* ---------------------------------------------------------------------- Init
Init ==
    /\ variant \in {"openai", "anthropic"}
    /\ button = "normal"
    /\ afterQueue = 0
    /\ dialog = "none"
    /\ alive = FALSE
    /\ pc = "idle"
    /\ req = NoReq
    /\ call_api = "original"
    /\ outline_response = <<>>
    /\ parsed = NoParsed
    /\ chapters = <<>>
    /\ idx = 0
    /\ full_content = <<>>
    /\ attempts = <<>>
    /\ apiCalls = 0
    /\ primaryCalls = 0
    /\ secondaryCalls = 0
    /\ response = NoResponse
    /\ coverFile = "absent"
    /\ coverWrites = 0
    /\ cover_image_path = ""
    /\ compiled = NoCompiled
    /\ epubFile = "absent"
    /\ epubWrites = 0
    /\ log = <<>>
    /\ inFlight = 0
    /\ pauses = 0
    /\ workers = 0
    /\ chapter_text = <<>>
    /\ outcomes = <<>>
    /\ raisedAt = 0
    /\ original_call = "original"

\* -------------------------------------------------------- run_book_creation
\* the messagebox text of a rejected submission, "none" if it is accepted
Validate(v, topic, isInt, n) ==
    IF v = "anthropic" /\ topic = "" THEN "Topic cannot be empty."
    ELSE IF ~isInt
        THEN (IF v = "openai" THEN "Chapters must be an integer."
              ELSE "Chapters must be a positive integer.")
    ELSE IF v = "anthropic" /\ n <= 0 THEN "Chapters must be a positive integer."
    ELSE "none"

\* the worker's arguments
MakeReq(v, topic, n, cover, model) ==
    [topic |-> topic, num_chapters |-> n,
     cover |-> IF v = "anthropic" /\ cover = "" THEN "cover.png" ELSE cover,
     model |-> IF v = "anthropic" THEN model ELSE "gpt-4"]

\* mutant: the button is left enabled while the worker runs
ButtonOnStart_Enabled == "normal"

\* self.create_button.config(state='disabled'), kept until the worker ends
ButtonOnStart == "disabled"

\* a click on Create Book: the submission is rejected or a worker is started
RunBookCreation ==
    /\ button = "normal"
    /\ \E topic \in Topics, isInt \in BOOLEAN, n \in -1..MaxChapters,
          cover \in CoverEntries, model \in ModelChoices :
        LET msg == Validate(variant, topic, isInt, n)
        IN  IF msg # "none"
            THEN /\ button' = "normal"
                 /\ dialog' = msg
                 /\ UNCHANGED <<variant, afterQueue, alive, pc, req, call_api,
                                outline_response, parsed, chapters, idx, full_content,
                                attempts, apiCalls, primaryCalls, secondaryCalls,
                                response, coverFile, coverWrites, cover_image_path,
                                compiled, epubFile, epubWrites, log, extra>>
            ELSE /\ button' = ButtonOnStart
                 /\ dialog' = "none"
                 /\ alive' = TRUE
                 /\ pc' = "begin"
                 /\ req' = MakeReq(variant, topic, n, cover, model)
                 /\ outline_response' = <<>>
                 /\ parsed' = NoParsed
                 /\ chapters' = <<>>
                 /\ idx' = 0
                 /\ full_content' = <<>>
                 /\ attempts' = <<>>
                 /\ apiCalls' = 0
                 /\ primaryCalls' = 0
                 /\ secondaryCalls' = 0
                 /\ response' = NoResponse
                 /\ coverWrites' = 0
                 /\ cover_image_path' = ""
                 /\ compiled' = NoCompiled
                 /\ epubWrites' = 0
                 /\ log' = <<>>
                 /\ inFlight' = 0
                 /\ pauses' = 0
                 /\ workers' = workers + 1
                 /\ chapter_text' = <<>>
                 /\ outcomes' = <<>>
                 /\ raisedAt' = 0
                 /\ UNCHANGED <<variant, afterQueue, call_api, coverFile, epubFile,
                                original_call>>

\* ------------------------------------------------------ threaded_create_book
\* the thread starts: the Anthropic variant rebinds the global call function
ThreadBegin ==
    /\ alive /\ pc = "begin"
    /\ pc' = "outline"
    /\ call_api' = IF variant = "anthropic" THEN "model_specific" ELSE call_api
    /\ log' = IF variant = "anthropic"
              THEN Append(log, "Starting book creation with model") ELSE log
    /\ original_call' = IF variant = "anthropic" THEN call_api ELSE original_call
    /\ UNCHANGED <<variant, ui, alive, req, outline_response, parsed, chapters, idx,
                   full_content, attempts, apiCalls, primaryCalls, secondaryCalls,
                   response, disk, coverWrites, cover_image_path, compiled,
                   epubWrites, inFlight, pauses, workers, chapter_text, outcomes,
                   raisedAt>>

\* ----------------------------------------------------- create_book_process
\* mutant: the exception is swallowed without a report
Failed_Silent(l, msgs) == l \o msgs

\* except Exception as e: logging.error(f"Book creation failed: {e}")
Failed(l, msgs) == l \o msgs \o <<"Book creation failed">>

\* mutant: the loop stops one chapter early
LoopOrReturn_Early(chs, i) == IF i < Len(chs) THEN "chapter" ELSE "cover_primary"

\* the position after the chapter loop's test at index i
LoopOrReturn(chs, i) == IF i <= Len(chs) THEN "chapter" ELSE "cover_primary"

\* the requests of one API call that were made, with what each returned
MadeRequests(o, call) == SubSeq(o, 1, Min(Len(o), Len(call.attempts)))

\* call_anthropic_api(outline_prompt, ...) / call_openai_api(...) is entered:
\* the request leaves and the worker blocks
IssueOutline ==
    /\ alive /\ pc = "outline"
    /\ pc' = "outline_wait"
    /\ inFlight' = inFlight + 1
    /\ UNCHANGED <<variant, ui, alive, req, call_api, outline_response, parsed,
                   chapters, idx, full_content, attempts, apiCalls, primaryCalls,
                   secondaryCalls, response, disk, coverWrites, cover_image_path,
                   compiled, epubWrites, log, pauses, workers, chapter_text,
                   outcomes, raisedAt, original_call>>

\* generate_book_content up to the chapter loop: the outline call returns or
\* raises, then the extraction and the repair of the title list
OutlineCall ==
    /\ alive /\ pc = "outline_wait"
    /\ \E o \in CallOutcomes, raw \in OutlineResponses :
        LET call == ApiCall(call_api, variant, req.model, o)
            text == ReturnedText(variant, raw)
            res  == ParseOutline(variant, text, req.topic, req.num_chapters)
            l0   == Append(log, "Generating book outline as JSON...")
        IN  /\ attempts' = call.attempts
            /\ outcomes' = MadeRequests(o, call)
            /\ raisedAt' = call.raised
            /\ inFlight' = inFlight - 1
            /\ apiCalls' = apiCalls + 1
            /\ IF ~call.ok
               THEN /\ log' = Failed(l0, <<"Error calling API">>)
                    /\ pc' = "failed"
                    /\ UNCHANGED <<outline_response, parsed, chapters, idx>>
               ELSE /\ outline_response' = text
                    /\ parsed' = res.parsed
                    /\ IF res.raised
                       THEN /\ log' = Failed(l0, res.logs)
                            /\ pc' = "failed"
                            /\ UNCHANGED <<chapters, idx>>
                       ELSE /\ log' = l0 \o res.logs
                            /\ chapters' = res.chapters
                            /\ idx' = 1
                            /\ pc' = LoopOrReturn(res.chapters, 1)
    /\ UNCHANGED <<variant, ui, alive, req, call_api, full_content, primaryCalls,
                   secondaryCalls, response, disk, coverWrites, cover_image_path,
                   compiled, epubWrites, pauses, workers, chapter_text,
                   original_call>>

\* the chapter's API call is entered: the request leaves and the worker blocks
IssueChapter ==
    /\ alive /\ pc = "chapter"
    /\ pc' = "chapter_wait"
    /\ inFlight' = inFlight + 1
    /\ UNCHANGED <<variant, ui, alive, req, call_api, outline_response, parsed,
                   chapters, idx, full_content, attempts, apiCalls, primaryCalls,
                   secondaryCalls, response, disk, coverWrites, cover_image_path,
                   compiled, epubWrites, log, pauses, workers, chapter_text,
                   outcomes, raisedAt, original_call>>

\* one iteration of the chapter loop up to the pause: the call returns or
\* raises, then the markup
ChapterCall ==
    /\ alive /\ pc = "chapter_wait"
    /\ \E o \in CallOutcomes, raw \in ChapterTexts :
        LET call == ApiCall(call_api, variant, req.model, o)
            text == ReturnedText(variant, raw)
            l0   == Append(log, "Generating content for Chapter")
        IN  /\ attempts' = call.attempts
            /\ outcomes' = MadeRequests(o, call)
            /\ raisedAt' = call.raised
            /\ inFlight' = inFlight - 1
            /\ apiCalls' = apiCalls + 1
            /\ IF ~call.ok
               THEN /\ log' = Failed(l0, <<"Error calling API">>)
                    /\ pc' = "failed"
                    /\ UNCHANGED <<full_content, chapter_text>>
               ELSE /\ log' = l0
                    /\ chapter_text' = text
                    /\ full_content' = full_content
                           \o ChapterHtml(idx, chapters[idx], text) \o <<NL>>
                    /\ pc' = "sleep"
    /\ UNCHANGED <<variant, ui, alive, req, call_api, outline_response, parsed,
                   chapters, idx, primaryCalls, secondaryCalls, response, disk,
                   coverWrites, cover_image_path, compiled, epubWrites, pauses,
                   workers, original_call>>

\* mutant: the pause is left out
AfterPause_Skipped(n) == n

\* the number of completed pauses after time.sleep(1) returns
AfterPause(n) == n + 1

\* time.sleep(1), then the next iteration or return full_content
Sleep ==
    /\ alive /\ pc = "sleep"
    /\ idx' = idx + 1
    /\ pc' = LoopOrReturn(chapters, idx + 1)
    /\ attempts' = <<>>
    /\ outcomes' = <<>>
    /\ raisedAt' = 0
    /\ pauses' = AfterPause(pauses)
    /\ UNCHANGED <<variant, ui, alive, req, call_api, outline_response, parsed,
                   chapters, full_content, apiCalls, primaryCalls,
                   secondaryCalls, response, disk, coverWrites, cover_image_path,
                   compiled, epubWrites, log, inFlight, workers, chapter_text,
                   original_call>>

\* ------------------------------------------------------ generate_book_cover
\* requests.get(...) outcomes: a 200 response, a 500 response, or an exception
HttpOutcomes == {"ok", "http_error", "transport_error"}

\* the response object requests.get returns for an outcome and an endpoint
HttpResponse(outcome, bytes) ==
    IF outcome = "ok" THEN [status |-> 200, content |-> bytes]
    ELSE [status |-> 500, content |-> "error page"]

\* mutant: raise_for_status is not called
StatusOk_Unchecked(r) == TRUE

\* response.raise_for_status() returns normally
StatusOk(r) == r.status = 200

\* mutant: the fallback endpoint is requested whatever the primary returned
AfterPrimary_Always(ok) == "cover_secondary"

\* the position after the primary request: the write, or the fallback request
AfterPrimary(ok) == IF ok THEN "cover_write" ELSE "cover_secondary"

\* the GET of the primary endpoint and raise_for_status
CoverPrimary ==
    /\ alive /\ pc = "cover_primary"
    /\ primaryCalls' = primaryCalls + 1
    /\ \E outcome \in HttpOutcomes :
        LET r  == HttpResponse(outcome, "primary bytes")
            ok == outcome # "transport_error" /\ StatusOk(r)
            l0 == Append(log, "Generating book cover image...")
        IN  /\ response' = IF outcome = "transport_error" THEN response ELSE r
            /\ pc' = AfterPrimary(ok)
            /\ log' = IF ok THEN l0
                      ELSE l0 \o <<"Failed to generate cover image with primary service",
                                   "Attempting fallback cover image service...">>
    /\ UNCHANGED <<variant, ui, alive, req, call_api, outline_response, parsed,
                   chapters, idx, full_content, attempts, apiCalls, secondaryCalls,
                   disk, coverWrites, cover_image_path, compiled, epubWrites,
                   extra>>

\* the GET of the fallback endpoint and raise_for_status
CoverSecondary ==
    /\ alive /\ pc = "cover_secondary"
    /\ secondaryCalls' = secondaryCalls + 1
    /\ \E outcome \in HttpOutcomes :
        LET r  == HttpResponse(outcome, "fallback bytes")
            ok == outcome # "transport_error" /\ StatusOk(r)
        IN  /\ response' = IF outcome = "transport_error" THEN response ELSE r
            /\ pc' = IF ok THEN "cover_write" ELSE "failed"
            /\ log' = IF ok THEN log
                      ELSE Failed(log,
                             <<"Failed to generate cover image with fallback service">>)
    /\ UNCHANGED <<variant, ui, alive, req, call_api, outline_response, parsed,
                   chapters, idx, full_content, attempts, apiCalls, primaryCalls,
                   disk, coverWrites, cover_image_path, compiled, epubWrites,
                   extra>>

\* open(output_filename, "wb") and f.write(response.content)
IoOutcomes == {"ok", "open_fails"}

\* the bytes f.write puts in the file
WrittenBytes(r) == r.content

\* with open(...) as f: f.write(response.content); return output_filename
CoverWrite ==
    /\ alive /\ pc = "cover_write"
    /\ \E io \in IoOutcomes :
        /\ req.cover = "" => io = "open_fails"
        /\ IF io = "ok"
           THEN /\ coverFile' = WrittenBytes(response)
                /\ coverWrites' = coverWrites + 1
                /\ cover_image_path' = req.cover
                /\ log' = Append(log, "Cover image saved")
                /\ pc' = "compile"
           ELSE /\ log' = Failed(log, <<"Failed to save cover image">>)
                /\ pc' = "failed"
                /\ UNCHANGED <<coverFile, coverWrites, cover_image_path>>
    /\ UNCHANGED <<variant, ui, alive, req, call_api, outline_response, parsed,
                   chapters, idx, full_content, attempts, apiCalls, primaryCalls,
                   secondaryCalls, response, epubFile, compiled, epubWrites,
                   extra>>

\* ----------------------------------------------------- compile_book_to_epub
\* the log records of a successful run
SuccessLogs ==
    <<"EPUB file created", "Book creation process completed successfully!",
      "Your EPUB file is ready">>

\* compile_book_to_epub and the two closing records of create_book_process
Compile ==
    /\ alive /\ pc = "compile"
    /\ \E io \in {"ok", "write_fails"} :
        LET l0 == Append(log, "Compiling content into EPUB format...")
            ok == io = "ok" /\ coverFile # "absent"
        IN  /\ compiled' = [content |-> full_content,
                            cover |-> IF coverFile = "absent" THEN "" ELSE coverFile,
                            called |-> TRUE]
            /\ IF ok
               THEN /\ epubFile' = "written"
                    /\ epubWrites' = epubWrites + 1
                    /\ log' = l0 \o SuccessLogs
                    /\ pc' = "done"
               ELSE /\ log' = Failed(l0, <<"Failed to compile EPUB">>)
                    /\ pc' = "failed"
                    /\ UNCHANGED <<epubFile, epubWrites>>
    /\ UNCHANGED <<variant, ui, alive, req, call_api, outline_response, parsed,
                   chapters, idx, full_content, attempts, apiCalls, primaryCalls,
                   secondaryCalls, response, coverFile, coverWrites, cover_image_path,
                   extra>>

\* ------------------------------------------------------------ the thread ends
\* mutant: the finally block does not restore the global
Restored_Forgotten(saved, current) == current

\* finally: call_anthropic_api = original_call
Restored(saved, current) == saved

\* mutant: the re-enabling callback is not queued
AfterQueued_Never(q) == q

\* self.master.after(0, lambda: ...): one more callback in the main loop's queue
AfterQueued(q) == q + 1

\* threaded_create_book after create_book_process: the global is restored
\* (Anthropic variant) and the re-enabling callback is queued
ThreadEnd ==
    /\ alive /\ pc \in {"done", "failed"}
    /\ alive' = FALSE
    /\ workers' = workers - 1
    /\ call_api' = IF variant = "anthropic" THEN Restored(original_call, call_api)
                   ELSE call_api
    /\ afterQueue' = AfterQueued(afterQueue)
    /\ UNCHANGED <<variant, button, dialog, pc, req, outline_response, parsed,
                   chapters, idx, full_content, attempts, apiCalls, primaryCalls,
                   secondaryCalls, response, disk, coverWrites, cover_image_path,
                   compiled, epubWrites, log, inFlight, pauses, chapter_text,
                   outcomes, raisedAt, original_call>>

\* the main loop runs lambda: self.create_button.config(state='normal')
ReEnable ==
    /\ afterQueue > 0
    /\ afterQueue' = afterQueue - 1
    /\ button' = "normal"
    /\ UNCHANGED <<variant, dialog, alive, pc, req, call_api, outline_response,
                   parsed, chapters, idx, full_content, attempts, apiCalls,
                   primaryCalls, secondaryCalls, response, disk, coverWrites,
                   cover_image_path, compiled, epubWrites, log,
                   extra>>

\* ------------------------------------------------------------- specification
Worker ==
    \/ ThreadBegin
    \/ IssueOutline
    \/ OutlineCall
    \/ IssueChapter
    \/ ChapterCall
    \/ Sleep
    \/ CoverPrimary
    \/ CoverSecondary
    \/ CoverWrite
    \/ Compile
    \/ ThreadEnd

Next ==
    \/ RunBookCreation
    \/ ThreadBegin
    \/ IssueOutline
    \/ OutlineCall
    \/ IssueChapter
    \/ ChapterCall
    \/ Sleep
    \/ CoverPrimary
    \/ CoverSecondary
    \/ CoverWrite
    \/ Compile
    \/ ThreadEnd
    \/ ReEnable

Spec == Init /\ [][Next]_vars

\* every external call returns or raises, and the main loop runs its callbacks
LiveSpec == Spec /\ WF_vars(Worker) /\ WF_vars(ReEnable)

TypeOK ==
    /\ variant \in {"openai", "anthropic"}
    /\ button \in {"normal", "disabled"}
    /\ afterQueue \in 0..1
    /\ alive \in BOOLEAN
    /\ pc \in {"idle", "begin", "outline", "outline_wait", "chapter", "chapter_wait",
               "sleep", "cover_primary", "cover_secondary", "cover_write", "compile",
               "done", "failed"}
    /\ inFlight \in 0..1
    /\ workers \in 0..1
    /\ original_call \in {"original", "model_specific"}
    /\ raisedAt \in 0..4
    /\ call_api \in {"original", "model_specific"}
    /\ coverFile \in {"absent", "primary bytes", "fallback bytes"}
    /\ epubFile \in {"absent", "written"}

\* ================================================================== claims
Range(q) == {q[i] : i \in DOMAIN q}

Count(q, m) == Cardinality({i \in DOMAIN q : q[i] = m})

\* the outline response gave no list: json.loads raised or returned a non-list
Malformed == parsed.kind \in {"error", "value"}

\* the headings of a document, in document order
Headings(content) == SelectSeq(content, LAMBDA t : t.tag = "h2")

\* the worker runs a request with a topic, a positive count and a cover path
ValidRequest == req.topic # "" /\ req.num_chapters >= 1 /\ req.cover # ""

\* the string "Chapter k"
ChapterK(k) == [text |-> "Chapter", num |-> k, part |-> ""]

\* C1: whenever the outline response parsed to a list of M entries and N >= 1,
\* the title list used for the chapters has exactly N entries: entry i is the
\* i-th parsed entry for i <= M and "Chapter i" for M < i <= N (so the first N
\* in order when M > N, and the list unchanged when M = N).
C1_OutlineRepair ==
    (parsed.kind = "list" /\ req.num_chapters >= 1) =>
        /\ Len(chapters) = req.num_chapters
        /\ \A i \in 1..req.num_chapters :
               chapters[i] = IF i <= Len(parsed.val) THEN parsed.val[i] ELSE ChapterK(i)

\* C1 witness: a list shorter than N was padded and is used by the loop
C1_Witness ==
    /\ parsed.kind = "list" /\ pc = "chapter"
    /\ Len(parsed.val) >= 1 /\ Len(parsed.val) < req.num_chapters

\* C1 second case reached as well: a list longer than N was truncated
C1_TruncationReached ==
    parsed.kind = "list" /\ req.num_chapters >= 1 /\ Len(parsed.val) > req.num_chapters

\* C2: in both variants a malformed outline response never fails the request:
\* the worker goes on with exactly N titles instead of failing at the parse.
C2_MalformedAbsorbed ==
    (Malformed /\ ValidRequest) =>
        /\ Len(chapters) = req.num_chapters
        /\ ~(pc = "failed" /\ apiCalls = 1)

C4_FencedSameAsBare ==
    \A b \in FencedBodies :
        (ValidRequest /\ parsed.kind # "none"
            /\ outline_response \in {FencedJson(b), FencedPlain(b)})
            => parsed = Extract(variant, ReturnedText(variant, Bare(b)))

\* C5: when a request with N >= 1 is Done, the content given to the archive
\* compiler holds exactly N chapter fragments, the i-th with index i and the
\* i-th title of the repaired outline.
C5_FragmentsInOrder ==
    (pc = "done" /\ req.num_chapters >= 1) =>
        LET h == Headings(compiled.content)
        IN  /\ compiled.called
            /\ Len(chapters) = req.num_chapters
            /\ Len(h) = req.num_chapters
            /\ \A i \in 1..Len(h) : h[i].idx = i /\ h[i].title = chapters[i]
            /\ Count(compiled.content, POpen) >= req.num_chapters

\* C5 witness: a request for at least two chapters is Done
C5_Witness == pc = "done" /\ req.num_chapters >= 2 /\ compiled.called

\* C6: a submission with an empty topic or a chapter count <= 0 never starts
\* a worker (and so makes no external call and writes no file).
C6_InvalidRejected ==
    pc # "idle" => (req.topic # "" /\ req.num_chapters >= 1)

\* the primary endpoint's request failed in this call
PrimaryFailed ==
    "Failed to generate cover image with primary service" \in Range(log)

\* generate_book_cover is past its requests
CoverRequestsOver == pc \in {"cover_write", "compile", "done"} \/ coverWrites = 1

\* C7: per cover call the primary endpoint is requested exactly once, the
\* fallback endpoint exactly once when the primary failed and never when it
\* succeeded, and neither a further time.
C7_CoverRequests ==
    /\ primaryCalls <= 1 /\ secondaryCalls <= 1
    /\ (pc = "cover_secondary" \/ CoverRequestsOver) => primaryCalls = 1
    /\ secondaryCalls = 1 => (primaryCalls = 1 /\ PrimaryFailed)
    /\ (PrimaryFailed /\ pc # "cover_secondary") => secondaryCalls = 1
    /\ (primaryCalls = 1 /\ ~PrimaryFailed) => secondaryCalls = 0

\* C7 witness: the primary failed and the single fallback request succeeded
C7_Witness ==
    /\ pc = "cover_write" /\ PrimaryFailed
    /\ primaryCalls = 1 /\ secondaryCalls = 1

\* both endpoints were requested and both failed
BothFailed ==
    "Failed to generate cover image with fallback service" \in Range(log)

\* generate_book_cover has returned or raised
CoverOver == primaryCalls = 1 /\ pc \in {"compile", "done", "failed"}

\* the bytes of the endpoint that succeeded
SucceededBytes == IF secondaryCalls = 1 THEN "fallback bytes" ELSE "primary bytes"

\* C8 as stated: for a valid request the cover path is written if and only if
\* one of the two endpoints succeeded.
C8_Original ==
    (ValidRequest /\ CoverOver) => (coverWrites = 1 <=> ~BothFailed)

\* C8 amended: the cover path is written only if one of the two endpoints
\* succeeded; a completed write stores exactly the bytes of the endpoint that
\* succeeded and the destination path is returned; if the write fails, or both
\* endpoints fail, the error propagates, nothing is written and no path is
\* returned.
C8_CoverWrite ==
    /\ coverWrites <= 1
    /\ coverWrites = 1 =>
           /\ ~BothFailed /\ response.status = 200
           /\ coverFile = SucceededBytes /\ response.content = SucceededBytes
           /\ cover_image_path = req.cover
    /\ (CoverOver /\ coverWrites = 0) =>
           /\ pc = "failed" /\ cover_image_path = ""
           /\ BothFailed \/ "Failed to save cover image" \in Range(log)
    /\ BothFailed => (pc = "failed" /\ coverWrites = 0)

\* C8 witness: the fallback endpoint's bytes were written
C8_Witness ==
    /\ coverWrites = 1 /\ secondaryCalls = 1
    /\ coverFile = "fallback bytes" /\ cover_image_path = req.cover

\* C9, the order of the phases as a state predicate
PhaseOrder ==
    /\ apiCalls >= 2 => (idx >= 1 /\ parsed.kind # "none")
    /\ primaryCalls >= 1 =>
           /\ idx = Len(chapters) + 1
           /\ apiCalls = 1 + Len(chapters)
           /\ Len(Headings(full_content)) = Len(chapters)
    /\ secondaryCalls >= 1 => primaryCalls >= 1
    /\ coverWrites >= 1 => primaryCalls >= 1
    /\ compiled.called => (coverWrites = 1 /\ cover_image_path = req.cover)
    /\ epubWrites >= 1 => compiled.called
    /\ pc = "failed" => log[Len(log)] = "Book creation failed"

\* C9, a failed request invokes nothing more
HaltsWhenFailed ==
    pc = "failed" =>
        \/ pc' = "begin"
        \/ /\ pc' = "failed"
           /\ UNCHANGED <<apiCalls, primaryCalls, secondaryCalls, coverWrites,
                          epubWrites, compiled, coverFile, epubFile, full_content>>

\* C9: the phases run in the order outline, chapters, cover, compile, each
\* only after the previous one returned successfully, and once a phase has
\* failed no later phase is invoked.
C9_PhasesInOrder == [](PhaseOrder) /\ [][HaltsWhenFailed]_vars

\* C9 witness: a chapter call failed: no cover request, no EPUB
C9_Witness ==
    /\ pc = "failed" /\ apiCalls >= 2
    /\ primaryCalls = 0 /\ epubWrites = 0 /\ ~compiled.called

Succeeded == Count(log, "Book creation process completed successfully!")

FailedReports == Count(log, "Book creation failed")

\* C10, the terminal report as a state predicate
OneOutcome ==
    /\ Succeeded + FailedReports <= 1
    /\ pc = "done" <=> Succeeded = 1
    /\ pc = "failed" <=> FailedReports = 1
    /\ Succeeded = 1 => (compiled.called /\ epubWrites = 1)
    /\ (~alive /\ pc # "idle") => Succeeded + FailedReports = 1

\* C10: every started worker ends in exactly one of Done and Failed with
\* exactly one terminal report; success is reported only after the compiler
\* returned, and never together with a failure.
C10_OneTerminalOutcome ==
    /\ []OneOutcome
    /\ (alive /\ pc = "begin") ~> (pc \in {"done", "failed"})

\* C10 witness: a worker has ended in Failed with its report logged
C10_Witness == ~alive /\ pc = "failed" /\ FailedReports = 1

\* the API call of this step ended in an error
CallRaised == outcomes # <<>> /\ outcomes[Len(outcomes)] # "ok"

C12_CallsInSequence ==
    /\ inFlight \in {0, 1}
    /\ inFlight = 1 <=> pc \in {"outline_wait", "chapter_wait"}
    /\ pc = "outline_wait" => (apiCalls = 0 /\ pauses = 0)
    /\ pc \in {"chapter", "chapter_wait"} =>
           /\ idx >= 1 /\ parsed.kind # "none"
           /\ apiCalls = idx
           /\ pauses = idx - 1
           /\ Len(Headings(full_content)) = idx - 1

\* C12 witness: the call for chapter 2 is in flight after one pause
C12_Witness == pc = "chapter_wait" /\ idx = 2 /\ pauses = 1 /\ inFlight = 1

\* C13, the state predicate: one worker at most, and the button is disabled
\* while it runs
OneWorker ==
    /\ workers <= 1
    /\ alive <=> workers = 1
    /\ alive => (button = "disabled" /\ afterQueue = 0)

\* C13, a worker starts only from an enabled button with no worker running
StartsFromEnabled ==
    workers' > workers => (button = "normal" /\ workers = 0 /\ button' = "disabled")

\* C13: at most one worker runs create_book_process; the button is disabled
\* from the submission that starts it until it has finished, and a worker is
\* only started while the button is enabled.
C13_OneWorkerAtATime == []OneWorker /\ [][StartsFromEnabled]_vars

\* C13 witness: a worker is waiting for a chapter with the button disabled
C13_Witness ==
    alive /\ workers = 1 /\ button = "disabled" /\ pc = "chapter_wait"

\* C14: the button is never disabled with no worker running and no re-enable
\* pending, and a disabled button is eventually enabled again.
C14_ButtonReEnabled ==
    /\ [](button = "disabled" => (alive \/ afterQueue > 0))
    /\ (button = "disabled") ~> (button = "normal")

\* C14 witness: the button is enabled again after a failed request
C14_Witness ==
    button = "normal" /\ ~alive /\ afterQueue = 0 /\ pc = "failed"

\* the index of the last heading of a document, 0 if there is none
LastHeading(content) ==
    LET hs == {i \in DOMAIN content : content[i].tag = "h2"}
    IN  IF hs = {} THEN 0 ELSE CHOOSE i \in hs : \A j \in hs : j <= i

RECURSIVE ParasOf(_)
\* the contents of the paragraph elements of a fragment, in order
ParasOf(t) ==
    IF t = <<>> THEN <<>>
    ELSE IF Head(t) = POpen THEN
        LET j == FindFrom(t, <<PClose>>, 1)
        IN  IF j = 0 THEN <<>>
            ELSE <<[k \in 1..(j - 2) |-> t[k + 1].text]>>
                     \o ParasOf(SubSeq(t, j + 1, Len(t)))
    ELSE ParasOf(Tail(t))

\* C15: the fragment of chapter i is the heading "Chapter i: t" followed by
\* exactly one paragraph element per line of the returned text, in order, so
\* as many paragraphs as newline characters plus one (an empty line gives an
\* empty paragraph).
C15_ChapterMarkup ==
    pc = "sleep" =>
        LET first == LastHeading(full_content)
            frag  == SubSeq(full_content, first, Len(full_content))
            paras == ParasOf(frag)
            lines == Split(chapter_text, <<"\n">>)
        IN  /\ first >= 1
            /\ frag[1].idx = idx /\ frag[1].title = chapters[idx]
            /\ paras = lines
            /\ Len(paras) = Count(chapter_text, "\n") + 1
            /\ Count(frag, POpen) = Len(paras)
            /\ Count(frag, PClose) = Len(paras)

\* C15 witness: a text with a blank line and a trailing newline was rendered
C15_Witness ==
    /\ pc = "sleep" /\ Count(chapter_text, "\n") = 3
    /\ Count(full_content, POpen) >= 4

\* the models model_specific_call requests, in order
FallbackChain == <<req.model, OpusModel, HaikuModel, InstantModel>>

\* C16: model_specific_call requests the selected model first; after an error
\* without "404" it raises with no further request; after one with "404" it
\* requests opus, haiku and instant in that order, once each, stopping at the
\* first success; it raises the last error when all fail.
C16_ModelFallback ==
    (variant = "anthropic" /\ attempts # <<>>) =>
        LET n == Len(attempts)
        IN  /\ n \in 1..4 /\ Len(outcomes) = n
            /\ attempts = SubSeq(FallbackChain, 1, n)
            /\ \A i \in 1..(n - 1) : outcomes[i] # "ok"
            /\ n >= 2 => outcomes[1] = "e404"
            /\ (outcomes[n] # "ok" /\ n < 4) => (n = 1 /\ outcomes[1] # "e404")
            /\ (outcomes[1] = "e404") => n >= 2
            /\ outcomes[n] # "ok" <=> pc = "failed"
            /\ raisedAt = IF outcomes[n] = "ok" THEN 0 ELSE n

\* C16 witness: all four requests failed and the call raised
C16_Witness ==
    /\ variant = "anthropic" /\ Len(attempts) = 4
    /\ outcomes[4] # "ok" /\ raisedAt = 4 /\ pc = "failed"

\* C17: in the Anthropic variant the global is the model-specific function
\* for the whole run of a worker, every call requests the selected model
\* first, and the global is the original function again when the worker has
\* ended and whenever the button is enabled.
C17_GlobalRebinding ==
    variant = "anthropic" =>
        /\ (alive /\ pc # "begin") => call_api = "model_specific"
        /\ ~alive => call_api = "original"
        /\ button = "normal" => call_api = "original"
        /\ original_call = "original"
        /\ attempts # <<>> => attempts[1] = req.model

\* C17 witness: the worker has ended in Done, the global is restored and the
\* re-enabling callback has not run yet
C17_Witness ==
    /\ variant = "anthropic" /\ ~alive /\ pc = "done"
    /\ call_api = "original" /\ afterQueue = 1 /\ button = "disabled"

====
